---- MODULE Spec2Model ----
(***************************************************************************)
(* Model of the training function _train built by Trainer                  *)
(* (src/lagrangebench/train/trainer.py): resolution of the initial         *)
(* params/state/opt_state/step, the while/for training loop over the       *)
(* shuffled loader, push-forward unrolling, the neighbor-overflow branch,  *)
(* the optimizer update, logging, evaluation, checkpointing and return.    *)
(*                                                                         *)
(* Model values (params, state, opt_state) are abstracted to where they    *)
(* come from ("arg", "init", "ckpt", ...) and how many optimizer updates   *)
(* of this run they have received. A neighbor list is abstracted to its    *)
(* buffer capacity and the per-sample overflow flags.                      *)
(***************************************************************************)
EXTENDS Integers, Sequences, FiniteSets

\* ---- bounds ----
MaxStep == 3
MaxUnroll == 1
MaxCadence == 2

\* batch_size of _train and loader_train
BatchSize == 2

\* the training dataset holds two batches of samples
NumSamples == 2 * BatchSize

\* headroom multiplier of the neighbor allocation, as a ratio
HeadNum == 5
HeadDen == 4

None == "None"

Samples == 1..NumSamples
BatchIdx == 1..BatchSize

\* true number of edges of a dataset sample at its raw positions
RawEdges(s) == s

\* capacity of the neighbor list case.allocate builds for positions with e
\* true edges: ceil(e * headroom)
Capacity(e) == (e * HeadNum + HeadDen - 1) \div HeadDen

\* case.allocate(key, sample): fresh neighbor list sized for the sample's raw
\* positions, no overflow
allocate(s) == [cap |-> Capacity(RawEdges(s)), overflow |-> FALSE]

\* the true edge counts positions moved by noise or by the model can have:
\* up to one more than any buffer allocated for a raw sample can hold
MaxEdges == Capacity(RawEdges(NumSamples)) + 1

\* broadcast_to_batch(neighbors, batch_size)
broadcast_to_batch(nb) == [cap |-> nb.cap, overflow |-> [i \in BatchIdx |-> nb.overflow]]

\* broadcast_from_batch(neighbors_batch, index)
broadcast_from_batch(nbb, ind) == [cap |-> nbb.cap, overflow |-> nbb.overflow[ind]]

\* neighbors_batch.did_buffer_overflow.sum() > 0
AnyOverflow(nbb) == \E i \in BatchIdx : nbb.overflow[i]

\* jnp.argmax(did_buffer_overflow): index of the first sample with the flag
\* set (index 0 of the code, 1 here, when none is set)
argmax(flags) ==
    IF \E i \in BatchIdx : flags[i]
    THEN CHOOSE i \in BatchIdx : flags[i] /\ \A j \in BatchIdx : flags[j] => i <= j
    ELSE 1

\* neighbor refresh of one sample against positions with count true edges:
\* the overflow flag is set iff the count exceeds the capacity
did_buffer_overflow(cap, count) == count > cap

\* the flag vectors a refresh of the batch can give when the true edge count
\* of sample i is one of counts[i]
refresh(nbb, counts) ==
    {[cap |-> nbb.cap, overflow |-> f] :
        f \in {g \in [BatchIdx -> BOOLEAN] :
                 \A i \in BatchIdx :
                    \E c \in counts[i] : g[i] = did_buffer_overflow(nbb.cap, c)}}

\* the batches a loader iterator can yield next: BatchSize distinct samples
\* not yet yielded in this epoch, in any order (shuffle=True)
Batches(rem) == {b \in [BatchIdx -> rem] : \A i, j \in BatchIdx : b[i] = b[j] => i = j}

VARIABLES
    pc,               \* position in _train
    step_max, eval_steps, noise_std,   \* arguments
    store_checkpoint, load_checkpoint,            \* arguments
    rollout_fits,     \* n_rollout_steps <= subsequence_length - input_seq_length
    trajs_fit,        \* eval_n_trajs <= len(loader_eval)
    shapes_match,     \* target[k].shape == pred[k].shape for the active channels
    ckpt_step,        \* the step stored in the checkpoint at load_checkpoint
    params, state, opt_state, step,
    unbound,          \* local names not yet assigned
    remaining,        \* samples the current loader iterator has not yielded
    raw_batch, unroll_steps, k,
    neighbors_batch, features_batch,
    nbrs,             \* the local nbrs
    saved,            \* the checkpoint last written by save_haiku
    nUpdates,         \* history: calls of update_fn
    aborted,          \* history: the last overflow abort, not yet followed up
    iterTrace,        \* history: phases run in the current iteration
    evalLog,          \* history: steps at which an evaluation ran
    updLog,           \* history: steps at which update_fn completed
    start,            \* history: the state resolved by INIT
    metrics,          \* averaged metrics of the last evaluation
    evalOut,          \* history: the neighbor list the last eval_rollout returned
    nSaves,           \* history: calls of save_haiku
    \* one call of _mse
    mpc,              \* position in _mse
    particle_type, target, loss_weight,           \* arguments of _mse
    pred, keys, non_kinematic_mask, num_non_kinematic, total_loss,
    \* one H5Dataset
    dpc,              \* position in H5Dataset: construction, then calls of the getter
    traj_keys,        \* the trajectories of the file
    sequence_length, input_sequence_length, is_rollout,
    keylen_cumulative, num_samples,
    idx, traj_idx, el_idx,        \* one call of the getter
    pos_input, pos_target         \* the frames it returns

trainvars == <<pc, step_max, eval_steps, noise_std, store_checkpoint,
          load_checkpoint, rollout_fits, trajs_fit, shapes_match, ckpt_step, params, state, opt_state, step, unbound,
          remaining, raw_batch, unroll_steps, k, neighbors_batch,
          features_batch, nbrs, saved, nUpdates, aborted,
          iterTrace, evalLog, updLog, start, metrics, evalOut, nSaves>>

lossvars == <<mpc, particle_type, target, loss_weight, pred, keys,
              non_kinematic_mask, num_non_kinematic, total_loss>>

datavars == <<dpc, traj_keys, sequence_length, input_sequence_length, is_rollout,
              keylen_cumulative, num_samples, idx, traj_idx, el_idx,
              pos_input, pos_target>>

vars == <<trainvars, lossvars, datavars>>

args == <<step_max, eval_steps, noise_std, store_checkpoint,
          load_checkpoint, rollout_fits, trajs_fit, shapes_match, ckpt_step>>

NoVal == [src |-> None, ver |-> 0]
Val(src) == [src |-> src, ver |-> 0]
Bump(v) == [src |-> v.src, ver |-> v.ver + 1]

\* no loss has been computed
NoLoss == [kind |-> "none", num |-> 0, den |-> 1]

\* _mse is not running
LossIdle ==
    /\ mpc = "idle"
    /\ particle_type = <<>>
    /\ target = <<>>
    /\ loss_weight = <<>>
    /\ pred = <<>>
    /\ keys = {}
    /\ non_kinematic_mask = <<>>
    /\ num_non_kinematic = 0
    /\ total_loss = NoLoss

TrainInit ==
    /\ pc = "config"
    /\ rollout_fits \in BOOLEAN
    /\ trajs_fit \in BOOLEAN
    /\ shapes_match \in BOOLEAN
    /\ step_max \in 0..MaxStep
    /\ eval_steps \in 1..MaxCadence
    /\ noise_std \in {0, 1}
    /\ store_checkpoint \in {None, "ckp_out"}
    /\ load_checkpoint \in {None, "ckp_in"}
    /\ ckpt_step \in IF load_checkpoint = "ckp_in" THEN 0..(MaxStep + 1) ELSE {0}
    /\ params \in {NoVal, Val("arg")}
    /\ state \in IF params = NoVal THEN {NoVal} ELSE {NoVal, Val("arg")}
    /\ opt_state = NoVal
    /\ step = 0
    /\ unbound = {"opt_state", "step"}
    /\ remaining = {}
    /\ raw_batch = <<>>
    /\ unroll_steps = 0
    /\ k = 0
    /\ neighbors_batch = [cap |-> 0, overflow |-> [i \in BatchIdx |-> FALSE]]
    /\ features_batch = <<>>
    /\ nbrs = [cap |-> 0, overflow |-> FALSE]
    /\ saved = {}
    /\ nUpdates = 0
    /\ aborted = {}
    /\ iterTrace = <<>>
    /\ evalLog = <<>>
    /\ updLog = <<>>
    /\ start = {}
    /\ metrics = {}
    /\ evalOut = {}
    /\ nSaves = 0

\* no H5Dataset is under construction or in use
DataIdle ==
    /\ dpc = "idle"
    /\ traj_keys = <<>>
    /\ sequence_length = 0
    /\ input_sequence_length = 0
    /\ is_rollout = FALSE
    /\ keylen_cumulative = <<>>
    /\ num_samples = 0
    /\ idx = 0
    /\ traj_idx = 0
    /\ el_idx = 0
    /\ pos_input = <<>>
    /\ pos_target = {}

Init == TrainInit /\ LossIdle /\ DataIdle

\* lines 170-226: loaders, configuration and its two assertions, optimizer,
\* loss and update functions
Configure ==
    /\ pc = "config"
    /\ pc' = IF rollout_fits /\ trajs_fit THEN "init" ELSE "crashed"
    /\ UNCHANGED <<args, lossvars, datavars, params, state, opt_state, step, unbound, remaining,
                   raw_batch, unroll_steps, k, neighbors_batch, features_batch,
                   nbrs, saved, nUpdates, aborted, iterTrace, evalLog, updLog,
                   start,
                   metrics, evalOut, nSaves>>

\* load_haiku(load_checkpoint): (params, state, opt_state, step)
load_haiku == [params |-> Val("ckpt"), state |-> Val("ckpt"),
               opt_state |-> Val("ckpt"), step |-> ckpt_step]

\* lines 228-259: first sample, allocation, resolution of the initial state
InitTrain ==
    /\ pc = "init"
    /\ NumSamples >= BatchSize
    /\ \E b \in Batches(Samples) :
         LET neighbors == allocate(b[1])
             p1 == IF params # NoVal THEN params
                   ELSE IF load_checkpoint \notin {None, ""} THEN load_haiku.params
                   ELSE Val("init")
             s1 == IF params # NoVal THEN (IF state = NoVal THEN Val("empty") ELSE state)
                   ELSE IF load_checkpoint \notin {None, ""} THEN load_haiku.state
                   ELSE Val("init")
             loaded == params = NoVal /\ load_checkpoint \notin {None, ""}
             o1 == IF loaded THEN load_haiku.opt_state ELSE opt_state
             st1 == IF loaded THEN load_haiku.step ELSE step
             ub1 == IF loaded THEN {} ELSE unbound
         IN /\ params' = p1
            /\ state' = s1
            /\ IF load_checkpoint = None
               THEN /\ opt_state' = [src |-> "opt_init:" \o p1.src, ver |-> 0]
                    /\ step' = 0
                    /\ unbound' = {}
               ELSE /\ opt_state' = o1
                    /\ step' = st1
                    /\ unbound' = ub1
            /\ nbrs' = neighbors
            /\ neighbors_batch' = broadcast_to_batch(neighbors)
    /\ start' = {[params |-> params', state |-> state', opt_state |-> opt_state',
                  step |-> step', unbound |-> unbound']}
    /\ pc' = "while"
    /\ UNCHANGED <<args, lossvars, datavars, remaining, raw_batch, unroll_steps, k, features_batch,
                   saved, nUpdates, aborted, iterTrace,
                   evalLog, updLog, metrics, evalOut, nSaves>>

\* line 262: while step < step_max (a read of an unassigned local raises),
\* line 263: iter(loader_train), line 356: return
While ==
    /\ pc = "while"
    /\ IF "step" \in unbound
       THEN pc' = "crashed" /\ UNCHANGED remaining
       ELSE IF step < step_max
            THEN pc' = "for" /\ remaining' = Samples
            ELSE pc' = "done" /\ UNCHANGED remaining
    /\ UNCHANGED <<args, lossvars, datavars, params, state, opt_state, step, unbound, raw_batch,
                   unroll_steps, k, neighbors_batch, features_batch, nbrs,
                   saved, nUpdates, aborted, iterTrace,
                   evalLog, updLog, start,
                   metrics, evalOut, nSaves>>

\* For yielding the batch that overflowed once more after an abort
For_Retry ==
    /\ pc = "for"
    /\ IF Cardinality(remaining) >= BatchSize
       THEN \E b \in Batches(remaining) :
              /\ raw_batch' = IF aborted # {} THEN raw_batch ELSE b
              /\ remaining' = IF aborted # {} THEN remaining
                              ELSE remaining \ {b[i] : i \in BatchIdx}
              /\ iterTrace' = <<>>
              /\ pc' = "sample"
       ELSE /\ pc' = "while"
            /\ UNCHANGED <<raw_batch, remaining, iterTrace>>
    /\ UNCHANGED <<args, lossvars, datavars, params, state, opt_state, step, unbound,
                   unroll_steps, k, neighbors_batch, features_batch, nbrs,
                   saved, nUpdates, aborted, evalLog, updLog, start,
                   metrics, evalOut, nSaves>>

\* line 263: for raw_batch in loader_train (drop_last=True)
For ==
    /\ pc = "for"
    /\ IF Cardinality(remaining) >= BatchSize
       THEN \E b \in Batches(remaining) :
              /\ raw_batch' = b
              /\ remaining' = remaining \ {b[i] : i \in BatchIdx}
              /\ iterTrace' = <<>>
              /\ pc' = "sample"
       ELSE /\ pc' = "while"
            /\ UNCHANGED <<raw_batch, remaining, iterTrace>>
    /\ UNCHANGED <<args, lossvars, datavars, params, state, opt_state, step, unbound,
                   unroll_steps, k, neighbors_batch, features_batch, nbrs,
                   saved, nUpdates, aborted, evalLog, updLog, start,
                   metrics, evalOut, nSaves>>

\* push_forward_sample_steps(key, step, pushforward): the number of
\* push-forward steps of this iteration, one draw for the whole batch
push_forward_sample_steps == 0..MaxUnroll

\* line 267
SampleSteps ==
    /\ pc = "sample"
    /\ unroll_steps' \in push_forward_sample_steps
    /\ aborted' = {}
    /\ iterTrace' = Append(iterTrace, "sample")
    /\ pc' = "preprocess"
    /\ UNCHANGED <<args, lossvars, datavars, params, state, opt_state, step, unbound, remaining,
                   raw_batch, k, neighbors_batch, features_batch, nbrs, saved,
                   nUpdates, evalLog, updLog, start,
                   metrics, evalOut, nSaves>>

\* the true edge counts sample i of the batch can have at the positions
\* preprocess refreshes the neighbor list against: those of the raw
\* positions, moved by the noise when noise_std > 0
NoisedCounts ==
    [i \in BatchIdx |-> IF noise_std = 0 THEN {RawEdges(raw_batch[i])}
                                         ELSE 1..MaxEdges]

\* the true edge counts a sample can have at the positions the model predicts
PredictedCounts == [i \in BatchIdx |-> 1..MaxEdges]

\* Preprocess leaving out the unroll loop of lines 278-286
Preprocess_SkipUnroll ==
    /\ pc = "preprocess"
    /\ neighbors_batch' \in refresh(neighbors_batch, NoisedCounts)
    /\ features_batch' = neighbors_batch'.overflow
    /\ k' = 0
    /\ iterTrace' = Append(iterTrace, "preprocess")
    /\ pc' = "check"
    /\ UNCHANGED <<args, lossvars, datavars, params, state, opt_state, step, unbound, remaining,
                   raw_batch, unroll_steps, nbrs, saved, nUpdates,
                   aborted, evalLog, updLog, start,
                   metrics, evalOut, nSaves>>

\* lines 269-277: preprocess_vmap over the whole batch, _current_pos, and
\* the entry of the unroll loop
Preprocess ==
    /\ pc = "preprocess"
    /\ neighbors_batch' \in refresh(neighbors_batch, NoisedCounts)
    /\ features_batch' = neighbors_batch'.overflow
    /\ k' = 0
    /\ iterTrace' = Append(iterTrace, "preprocess")
    /\ pc' = IF unroll_steps > 0 THEN "unroll" ELSE "check"
    /\ UNCHANGED <<args, lossvars, datavars, params, state, opt_state, step, unbound, remaining,
                   raw_batch, unroll_steps, nbrs, saved, nUpdates,
                   aborted, evalLog, updLog, start,
                   metrics, evalOut, nSaves>>

\* PushForward not taking the features the application returns
PushForward_StaleFeatures ==
    /\ pc = "unroll"
    /\ k < unroll_steps
    /\ neighbors_batch' \in refresh(neighbors_batch, PredictedCounts)
    /\ features_batch' = features_batch
    /\ k' = k + 1
    /\ iterTrace' = Append(iterTrace, "unroll")
    /\ pc' = IF k' < unroll_steps THEN "unroll" ELSE "check"
    /\ UNCHANGED <<args, lossvars, datavars, params, state, opt_state, step, unbound, remaining,
                   raw_batch, unroll_steps, nbrs, saved, nUpdates,
                   aborted, evalLog, updLog, start,
                   metrics, evalOut, nSaves>>

\* PushForward assigning the state the model application returns
PushForward_AssignsState ==
    /\ pc = "unroll"
    /\ k < unroll_steps
    /\ neighbors_batch' \in refresh(neighbors_batch, PredictedCounts)
    /\ features_batch' = neighbors_batch'.overflow
    /\ k' = k + 1
    /\ iterTrace' = Append(iterTrace, "unroll")
    /\ pc' = IF k' < unroll_steps THEN "unroll" ELSE "check"
    /\ state' = Bump(state)
    /\ UNCHANGED <<args, lossvars, datavars, params, opt_state, step, unbound, remaining,
                   raw_batch, unroll_steps, nbrs, saved, nUpdates,
                   aborted, evalLog, updLog, start,
                   metrics, evalOut, nSaves>>

\* lines 278-286: one push_forward_vmap application; the model moves the
\* particles, the neighbor list is refreshed against the predicted
\* positions and the features are rebuilt
PushForward ==
    /\ pc = "unroll"
    /\ k < unroll_steps
    /\ neighbors_batch' \in refresh(neighbors_batch, PredictedCounts)
    /\ features_batch' = neighbors_batch'.overflow
    /\ k' = k + 1
    /\ iterTrace' = Append(iterTrace, "unroll")
    /\ pc' = IF k' < unroll_steps THEN "unroll" ELSE "check"
    /\ UNCHANGED <<args, lossvars, datavars, params, state, opt_state, step, unbound, remaining,
                   raw_batch, unroll_steps, nbrs, saved, nUpdates,
                   aborted, evalLog, updLog, start,
                   metrics, evalOut, nSaves>>

\* CheckOverflow without the continue of line 302: the update follows the
\* reallocation
CheckOverflow_NoContinue ==
    /\ pc = "check"
    /\ iterTrace' = Append(iterTrace, "check")
    /\ IF AnyOverflow(neighbors_batch)
       THEN LET ind == argmax(neighbors_batch.overflow)
                sample == raw_batch[ind]
                new == allocate(sample)
            IN /\ nbrs' = new
               /\ neighbors_batch' = broadcast_to_batch(new)
               /\ aborted' = {[batch |-> raw_batch, step |-> step,
                               params |-> params, state |-> state,
                               opt_state |-> opt_state, nUpdates |-> nUpdates,
                               remaining |-> remaining,
                               flags |-> neighbors_batch.overflow,
                               unroll_steps |-> unroll_steps]}
               /\ pc' = "update"
       ELSE /\ pc' = "update"
            /\ UNCHANGED <<nbrs, neighbors_batch, aborted>>
    /\ UNCHANGED <<args, lossvars, datavars, params, state, opt_state, step, unbound, remaining,
                   raw_batch, unroll_steps, k, features_batch, saved, nUpdates, evalLog, updLog, start,
                   metrics, evalOut, nSaves>>

\* CheckOverflow reading the sample to reallocate for at index 0 instead of
\* at the argmax of the flags
CheckOverflow_FirstSample ==
    /\ pc = "check"
    /\ iterTrace' = Append(iterTrace, "check")
    /\ IF AnyOverflow(neighbors_batch)
       THEN LET ind == 1
                sample == raw_batch[ind]
                new == allocate(sample)
            IN /\ nbrs' = new
               /\ neighbors_batch' = broadcast_to_batch(new)
               /\ aborted' = {[batch |-> raw_batch, step |-> step,
                               params |-> params, state |-> state,
                               opt_state |-> opt_state, nUpdates |-> nUpdates,
                               remaining |-> remaining,
                               flags |-> neighbors_batch.overflow,
                               unroll_steps |-> unroll_steps]}
               /\ pc' = "for"
       ELSE /\ pc' = "update"
            /\ UNCHANGED <<nbrs, neighbors_batch, aborted>>
    /\ UNCHANGED <<args, lossvars, datavars, params, state, opt_state, step, unbound, remaining,
                   raw_batch, unroll_steps, k, features_batch, saved, nUpdates, evalLog, updLog, start,
                   metrics, evalOut, nSaves>>

\* CheckOverflow counting the aborted iteration as a step: the step += 1
\* of line 352 follows the reallocation
CheckOverflow_CountsStep ==
    /\ pc = "check"
    /\ iterTrace' = Append(iterTrace, "check")
    /\ IF AnyOverflow(neighbors_batch)
       THEN LET ind == argmax(neighbors_batch.overflow)
                sample == raw_batch[ind]
                new == allocate(sample)
            IN /\ nbrs' = new
               /\ neighbors_batch' = broadcast_to_batch(new)
               /\ aborted' = {[batch |-> raw_batch, step |-> step,
                               params |-> params, state |-> state,
                               opt_state |-> opt_state, nUpdates |-> nUpdates,
                               remaining |-> remaining,
                               flags |-> neighbors_batch.overflow,
                               unroll_steps |-> unroll_steps]}
               /\ pc' = "inc"
       ELSE /\ pc' = "update"
            /\ UNCHANGED <<nbrs, neighbors_batch, aborted>>
    /\ UNCHANGED <<args, lossvars, datavars, params, state, opt_state, step, unbound, remaining,
                   raw_batch, unroll_steps, k, features_batch, saved, nUpdates, evalLog, updLog, start,
                   metrics, evalOut, nSaves>>

\* lines 288-302: the overflow check and the reallocation branch
CheckOverflow ==
    /\ pc = "check"
    /\ iterTrace' = Append(iterTrace, "check")
    /\ IF AnyOverflow(neighbors_batch)
       THEN LET ind == argmax(neighbors_batch.overflow)
                sample == raw_batch[ind]
                new == allocate(sample)
            IN /\ nbrs' = new
               /\ neighbors_batch' = broadcast_to_batch(new)
               /\ aborted' = {[batch |-> raw_batch, step |-> step,
                               params |-> params, state |-> state,
                               opt_state |-> opt_state, nUpdates |-> nUpdates,
                               remaining |-> remaining,
                               flags |-> neighbors_batch.overflow,
                               unroll_steps |-> unroll_steps]}
               /\ pc' = "for"
       ELSE /\ pc' = "update"
            /\ UNCHANGED <<nbrs, neighbors_batch, aborted>>
    /\ UNCHANGED <<args, lossvars, datavars, params, state, opt_state, step, unbound, remaining,
                   raw_batch, unroll_steps, k, features_batch, saved, nUpdates, evalLog, updLog, start,
                   metrics, evalOut, nSaves>>

\* lines 304-311: update_fn, which applies _mse to every sample (the
\* assertion of line 48 on the shapes fails the call) and then the optimizer
Update ==
    /\ pc = "update"
    /\ IF shapes_match
       THEN /\ params' = Bump(params)
            /\ state' = Bump(state)
            /\ opt_state' = Bump(opt_state)
            /\ nUpdates' = nUpdates + 1
            /\ updLog' = Append(updLog, step)
            /\ iterTrace' = Append(iterTrace, "update")
            /\ pc' = "log"
       ELSE /\ pc' = "crashed"
            /\ UNCHANGED <<params, state, opt_state, nUpdates, updLog, iterTrace>>
    /\ UNCHANGED <<args, lossvars, datavars, step, unbound, remaining, raw_batch, unroll_steps, k,
                   neighbors_batch, features_batch, nbrs, saved, aborted, evalLog, start,
                   metrics, evalOut, nSaves>>

\* lines 313-319: the loss is written to the logging sink when
\* step % log_steps == 0; nothing of _train is assigned
Log ==
    /\ pc = "log"
    /\ iterTrace' = Append(iterTrace, "log")
    /\ pc' = "eval"
    /\ UNCHANGED <<args, lossvars, datavars, params, state, opt_state, step, unbound, remaining,
                   raw_batch, unroll_steps, k, neighbors_batch, features_batch,
                   nbrs, saved, nUpdates, aborted, evalLog, updLog,
                   start,
                   metrics, evalOut, nSaves>>

\* eval_rollout(..., neighbors=nbrs, ...): the neighbor list it returns is
\* the one it was given or one reallocated to a larger capacity
eval_rollout(nb) == {[cap |-> c, overflow |-> FALSE] : c \in nb.cap..(nb.cap + 1)}

\* the raw metrics eval_rollout returns are those of the model (p, s) it
\* rolled out
eval_metrics(p, s) == [params |-> p, state |-> s]

\* averaged_metrics(eval_metrics): the averages, under their names
averaged_metrics(em) == [name \in {"val/loss"} |-> em]

\* lines 337-340: the metadata of a checkpoint
metadata_ckp(s, ms) == [step |-> s, loss |-> (CHOOSE m \in ms : TRUE)["val/loss"]]

\* save_haiku(store_checkpoint, params, state, opt_state, metadata_ckp): the
\* checkpoint directory then holds these values
save_haiku(p, s, o, md) ==
    {[params |-> p, state |-> s, opt_state |-> o, step |-> md.step, loss |-> md.loss]}

\* Eval without the step > 0 test of line 321
Eval_AtStepZero ==
    /\ pc = "eval"
    /\ IF step % eval_steps = 0
       THEN /\ nbrs' \in eval_rollout(broadcast_from_batch(neighbors_batch, 1))
            /\ evalOut' = {nbrs'}
            /\ metrics' = {averaged_metrics(eval_metrics(params, state))}
            /\ evalLog' = Append(evalLog, step)
            /\ iterTrace' = Append(iterTrace, "eval")
            /\ IF store_checkpoint # None
               THEN /\ saved' = save_haiku(params, state, opt_state,
                                           metadata_ckp(step, metrics'))
                    /\ nSaves' = nSaves + 1
               ELSE UNCHANGED <<saved, nSaves>>
       ELSE UNCHANGED <<nbrs, evalOut, metrics, evalLog, iterTrace, saved, nSaves>>
    /\ pc' = "inc"
    /\ UNCHANGED <<args, lossvars, datavars, params, state, opt_state, step, unbound, remaining,
                   raw_batch, unroll_steps, k, neighbors_batch, features_batch,
                   nUpdates, aborted, updLog, start>>

\* Eval without the store_checkpoint test of line 341
Eval_AlwaysSaves ==
    /\ pc = "eval"
    /\ IF step % eval_steps = 0 /\ step > 0
       THEN /\ nbrs' \in eval_rollout(broadcast_from_batch(neighbors_batch, 1))
            /\ evalOut' = {nbrs'}
            /\ metrics' = {averaged_metrics(eval_metrics(params, state))}
            /\ evalLog' = Append(evalLog, step)
            /\ iterTrace' = Append(iterTrace, "eval")
            /\ IF TRUE
               THEN /\ saved' = save_haiku(params, state, opt_state,
                                           metadata_ckp(step, metrics'))
                    /\ nSaves' = nSaves + 1
               ELSE UNCHANGED <<saved, nSaves>>
       ELSE UNCHANGED <<nbrs, evalOut, metrics, evalLog, iterTrace, saved, nSaves>>
    /\ pc' = "inc"
    /\ UNCHANGED <<args, lossvars, datavars, params, state, opt_state, step, unbound, remaining,
                   raw_batch, unroll_steps, k, neighbors_batch, features_batch,
                   nUpdates, aborted, updLog, start>>

\* Eval with the cadence tested on the step the iteration ends with
Eval_NextStep ==
    /\ pc = "eval"
    /\ IF (step + 1) % eval_steps = 0
       THEN /\ nbrs' \in eval_rollout(broadcast_from_batch(neighbors_batch, 1))
            /\ evalOut' = {nbrs'}
            /\ metrics' = {averaged_metrics(eval_metrics(params, state))}
            /\ evalLog' = Append(evalLog, step)
            /\ iterTrace' = Append(iterTrace, "eval")
            /\ IF store_checkpoint # None
               THEN /\ saved' = save_haiku(params, state, opt_state,
                                           metadata_ckp(step, metrics'))
                    /\ nSaves' = nSaves + 1
               ELSE UNCHANGED <<saved, nSaves>>
       ELSE UNCHANGED <<nbrs, evalOut, metrics, evalLog, iterTrace, saved, nSaves>>
    /\ pc' = "inc"
    /\ UNCHANGED <<args, lossvars, datavars, params, state, opt_state, step, unbound, remaining,
                   raw_batch, unroll_steps, k, neighbors_batch, features_batch,
                   nUpdates, aborted, updLog, start>>

\* lines 321-350: evaluation and checkpoint
Eval ==
    /\ pc = "eval"
    /\ IF step % eval_steps = 0 /\ step > 0
       THEN /\ nbrs' \in eval_rollout(broadcast_from_batch(neighbors_batch, 1))
            /\ evalOut' = {nbrs'}
            /\ metrics' = {averaged_metrics(eval_metrics(params, state))}
            /\ evalLog' = Append(evalLog, step)
            /\ iterTrace' = Append(iterTrace, "eval")
            /\ IF store_checkpoint # None
               THEN /\ saved' = save_haiku(params, state, opt_state,
                                           metadata_ckp(step, metrics'))
                    /\ nSaves' = nSaves + 1
               ELSE UNCHANGED <<saved, nSaves>>
       ELSE UNCHANGED <<nbrs, evalOut, metrics, evalLog, iterTrace, saved, nSaves>>
    /\ pc' = "inc"
    /\ UNCHANGED <<args, lossvars, datavars, params, state, opt_state, step, unbound, remaining,
                   raw_batch, unroll_steps, k, neighbors_batch, features_batch,
                   nUpdates, aborted, updLog, start>>

\* Increment without the break of lines 353-354
Increment_NoBreak ==
    /\ pc = "inc"
    /\ step' = step + 1
    /\ pc' = "for"
    /\ UNCHANGED <<args, lossvars, datavars, params, state, opt_state, unbound, remaining,
                   raw_batch, unroll_steps, k, neighbors_batch, features_batch,
                   nbrs, saved, nUpdates, aborted, iterTrace,
                   evalLog, updLog, start,
                   metrics, evalOut, nSaves>>

\* lines 352-354: step += 1, break when step == step_max
Increment ==
    /\ pc = "inc"
    /\ step' = step + 1
    /\ pc' = IF step' = step_max THEN "while" ELSE "for"
    /\ UNCHANGED <<args, lossvars, datavars, params, state, opt_state, unbound, remaining,
                   raw_batch, unroll_steps, k, neighbors_batch, features_batch,
                   nbrs, saved, nUpdates, aborted, iterTrace,
                   evalLog, updLog, start,
                   metrics, evalOut, nSaves>>

Next ==
    \/ Configure
    \/ InitTrain
    \/ While
    \/ For
    \/ SampleSteps
    \/ Preprocess
    \/ PushForward
    \/ CheckOverflow
    \/ Update
    \/ Log
    \/ Eval
    \/ Increment

Spec == Init /\ [][Next]_vars

\* ---------------------------------------------------------------------
\* _mse (lines 36-60): the loss of one sample.

\* particles of a sample, components of a vector, weights of the loss
NumParticles == 2
Dim == 1
MaxWeight == 1

Particles == 1..NumParticles
Channels == {"acc", "vel"}
Values == 0..1
Vectors == [1..Dim -> Values]
\* one vector per particle
Fields == [Particles -> Vectors]
\* the predictions a model can return: any non-empty set of channels
Preds == UNION {[K -> Fields] : K \in (SUBSET Channels) \ {{}}}

\* get_kinematic_mask(particle_type): the particles whose motion is prescribed
get_kinematic_mask(pt) == [i \in DOMAIN pt |-> pt[i] # "FLUID"]

\* LossConfig.nonzero: the channels of non-zero weight
nonzero(lw) == {c \in DOMAIN lw : lw[c] # 0}

RECURSIVE SumOver(_, _)
\* the sum of f over the indices S
SumOver(S, f) ==
    IF S = {} THEN 0
    ELSE LET x == CHOOSE y \in S : TRUE IN f[x] + SumOver(S \ {x}, f)

\* line 55: (loss_weight[t] * (pred[t] - target[t]) ** 2).sum(axis=-1)
losses(pr, tg, lw, t) ==
    [i \in Particles |->
        SumOver(1..Dim, [d \in 1..Dim |->
            lw[t] * (pr[t][i][d] - tg[t][i][d]) * (pr[t][i][d] - tg[t][i][d])])]

\* line 56: jnp.array(losses).sum(0); the sum of no component is 0
summed(pr, tg, lw, ks) ==
    [i \in Particles |-> SumOver(ks, [t \in ks |-> losses(pr, tg, lw, t)[i]])]

\* line 57: jnp.where(non_kinematic_mask, total_loss, 0)
where(mask, tl) == [i \in DOMAIN tl |-> IF mask[i] THEN tl[i] ELSE 0]

\* line 58: the float division x / n; 0 / 0 is nan and x / 0 is inf, no error
divide(x, n) ==
    IF n # 0 THEN [kind |-> "finite", num |-> x, den |-> n]
    ELSE IF x = 0 THEN [kind |-> "nan", num |-> 0, den |-> 0]
    ELSE [kind |-> "inf", num |-> x, den |-> 0]

\* lines 47-58 as one function of the arguments and of the prediction
mse(pr, pt, tg, lw) ==
    LET ks == nonzero(lw) \cap DOMAIN pr
        mask == [i \in DOMAIN pt |-> ~get_kinematic_mask(pt)[i]]
        tl == where(mask, summed(pr, tg, lw, ks))
    IN divide(SumOver(Particles, tl), Cardinality({i \in DOMAIN pt : mask[i]}))

\* the arguments of a call of _mse; the training loop is not running
MseInit ==
    /\ TrainInit
    /\ rollout_fits /\ trajs_fit
    /\ step_max = 0 /\ eval_steps = 1 /\ noise_std = 0
    /\ store_checkpoint = None /\ load_checkpoint = None
    /\ params = NoVal
    /\ mpc = "call"
    /\ particle_type \in [Particles -> {"FLUID", "SOLID_WALL"}]
    /\ target \in [Channels -> Fields]
    /\ loss_weight \in [Channels -> 0..MaxWeight]
    /\ pred = <<>>
    /\ keys = {}
    /\ non_kinematic_mask = <<>>
    /\ num_non_kinematic = 0
    /\ total_loss = NoLoss
    /\ DataIdle

\* line 45: pred, state = model_fn(params, state, (features, particle_type))
Mse_Forward ==
    /\ mpc = "call"
    /\ pred' \in Preds
    /\ mpc' = "keys"
    /\ UNCHANGED <<trainvars, datavars, particle_type, target, loss_weight, keys,
                   non_kinematic_mask, num_non_kinematic, total_loss>>

\* lines 47-48: the active channels and the assertion on their shapes
Mse_Keys ==
    /\ mpc = "keys"
    /\ keys' = nonzero(loss_weight) \cap DOMAIN pred
    /\ mpc' = IF keys' = {} \/ shapes_match THEN "mask" ELSE "raised"
    /\ UNCHANGED <<trainvars, datavars, particle_type, target, loss_weight, pred,
                   non_kinematic_mask, num_non_kinematic, total_loss>>

\* lines 50-51: the particle mask
Mse_Mask ==
    /\ mpc = "mask"
    /\ non_kinematic_mask' =
           [i \in DOMAIN particle_type |-> ~get_kinematic_mask(particle_type)[i]]
    /\ num_non_kinematic' =
           Cardinality({i \in DOMAIN particle_type : non_kinematic_mask'[i]})
    /\ mpc' = "loss"
    /\ UNCHANGED <<trainvars, datavars, particle_type, target, loss_weight, pred, keys,
                   total_loss>>

\* Mse_Loss without the jnp.where of line 57
Mse_Loss_Unmasked ==
    /\ mpc = "loss"
    /\ total_loss' =
           divide(SumOver(Particles, summed(pred, target, loss_weight, keys)),
                  num_non_kinematic)
    /\ mpc' = "ret"
    /\ UNCHANGED <<trainvars, datavars, particle_type, target, loss_weight, pred, keys,
                   non_kinematic_mask, num_non_kinematic>>

\* lines 53-60: the loss components, their masked sum and the normalisation
Mse_Loss ==
    /\ mpc = "loss"
    /\ total_loss' =
           divide(SumOver(Particles,
                          where(non_kinematic_mask,
                                summed(pred, target, loss_weight, keys))),
                  num_non_kinematic)
    /\ mpc' = "ret"
    /\ UNCHANGED <<trainvars, datavars, particle_type, target, loss_weight, pred, keys,
                   non_kinematic_mask, num_non_kinematic>>

MseNext ==
    \/ Mse_Forward
    \/ Mse_Keys
    \/ Mse_Mask
    \/ Mse_Loss

MseSpec == MseInit /\ [][MseNext]_vars

\* ---------------------------------------------------------------------
\* H5Dataset (src/gns_jax/data.py): the samples of a file of trajectories.
\* A Python list is a sequence here and its element i is s[i + 1]; the
\* frames of a trajectory are numbered from 0.

\* trajectories of a file, frames of a trajectory
MaxTraj == 3
MaxLen == 4

RECURSIVE cumsum(_)
\* np.cumsum(keylens).tolist(): the running sums
cumsum(s) ==
    IF s = <<>> THEN <<>>
    ELSE LET h == cumsum(SubSeq(s, 1, Len(s) - 1))
         IN Append(h, (IF h = <<>> THEN 0 ELSE h[Len(h)]) + s[Len(s)])

RECURSIVE bisect_lohi(_, _, _, _)
\* the loop of bisect.bisect between lo and hi
bisect_lohi(a, x, lo, hi) ==
    IF lo < hi
    THEN LET mid == (lo + hi) \div 2
         IN IF x < a[mid + 1] THEN bisect_lohi(a, x, lo, mid)
                              ELSE bisect_lohi(a, x, mid + 1, hi)
    ELSE lo

\* bisect.bisect(a, x): the insertion point of x in a, right of equal entries
bisect(a, x) == bisect_lohi(a, x, 0, Len(a))

\* lines 88-92: the trajectory of sample i and its element in the trajectory
locate(cum, i) ==
    LET t == bisect(cum, i)
    IN <<t, IF t # 0 THEN i - cum[t] ELSE i>>

\* traj_pos[a : b] for 0 <= a: the frames from a up to b, cut at the end of
\* a trajectory of len frames
slice(a, b, len) ==
    [j \in 1..((IF b < len THEN b ELSE len) - a) |-> a + j - 1]

\* a file and the arguments of the constructor; neither the training loop
\* nor _mse is running
DataInit ==
    /\ TrainInit
    /\ rollout_fits /\ trajs_fit /\ shapes_match
    /\ step_max = 0 /\ eval_steps = 1 /\ noise_std = 0
    /\ store_checkpoint = None /\ load_checkpoint = None
    /\ params = NoVal
    /\ LossIdle
    /\ dpc = "new"
    /\ traj_keys \in {[i \in 1..n |-> i - 1] : n \in 1..MaxTraj}
    /\ sequence_length \in 1..MaxLen
    /\ input_sequence_length \in 1..MaxLen
    /\ is_rollout \in BOOLEAN
    /\ keylen_cumulative = <<>>
    /\ num_samples = 0
    /\ idx = 0
    /\ traj_idx = 0
    /\ el_idx = 0
    /\ pos_input = <<>>
    /\ pos_target = {}

\* lines 55-65: the number of samples and the getter
H5Dataset_init ==
    /\ dpc = "new"
    /\ IF is_rollout
       THEN /\ num_samples' = Len(traj_keys)
            /\ UNCHANGED keylen_cumulative
       ELSE LET samples_per_traj == sequence_length - input_sequence_length
                keylens == [i \in DOMAIN traj_keys |-> samples_per_traj]
            IN /\ keylen_cumulative' = cumsum(keylens)
               /\ num_samples' = SumOver(DOMAIN keylens, keylens)
    /\ dpc' = "ready"
    /\ UNCHANGED <<trainvars, lossvars, traj_keys, sequence_length,
                   input_sequence_length, is_rollout, idx, traj_idx, el_idx,
                   pos_input, pos_target>>

\* lines 70-84: the getter of a rollout dataset, for an index below len
get_trajectory ==
    /\ dpc = "ready"
    /\ is_rollout
    /\ idx' \in 0..(num_samples - 1)
    /\ traj_idx' = idx'
    /\ pos_input' = slice(0, sequence_length, sequence_length)
    /\ dpc' = "returned"
    /\ UNCHANGED <<trainvars, lossvars, traj_keys, sequence_length,
                   input_sequence_length, is_rollout, keylen_cumulative,
                   num_samples, el_idx, pos_target>>

\* get_window_locate with bisect_left in place of bisect.bisect
get_window_locate_BisectLeft ==
    /\ dpc = "ready"
    /\ ~is_rollout
    /\ idx' \in 0..(num_samples - 1)
    /\ traj_idx' = locate(keylen_cumulative, idx' - 1)[1]
    /\ el_idx' = IF traj_idx' # 0 THEN idx' - keylen_cumulative[traj_idx'] ELSE idx'
    /\ dpc' = IF el_idx' >= 0 THEN "located" ELSE "raised"
    /\ UNCHANGED <<trainvars, lossvars, traj_keys, sequence_length,
                   input_sequence_length, is_rollout, keylen_cumulative,
                   num_samples, pos_input, pos_target>>

\* lines 86-93: get_window, for an index below len, up to its assertion
get_window_locate ==
    /\ dpc = "ready"
    /\ ~is_rollout
    /\ idx' \in 0..(num_samples - 1)
    /\ traj_idx' = locate(keylen_cumulative, idx')[1]
    /\ el_idx' = locate(keylen_cumulative, idx')[2]
    /\ dpc' = IF el_idx' >= 0 THEN "located" ELSE "raised"
    /\ UNCHANGED <<trainvars, lossvars, traj_keys, sequence_length,
                   input_sequence_length, is_rollout, keylen_cumulative,
                   num_samples, pos_input, pos_target>>

\* lines 95-111: the window and the target are read from the trajectory; an
\* index past the end of traj_keys or of the trajectory raises
get_window_load ==
    /\ dpc = "located"
    /\ IF traj_idx < Len(traj_keys) /\ el_idx + input_sequence_length < sequence_length
       THEN /\ pos_input' = slice(el_idx, el_idx + input_sequence_length,
                                  sequence_length)
            /\ pos_target' = {el_idx + input_sequence_length}
            /\ dpc' = "returned"
       ELSE /\ dpc' = "raised"
            /\ UNCHANGED <<pos_input, pos_target>>
    /\ UNCHANGED <<trainvars, lossvars, traj_keys, sequence_length,
                   input_sequence_length, is_rollout, keylen_cumulative,
                   num_samples, idx, traj_idx, el_idx>>

\* lines 113-114: __getitem__ returns; the locals of the getter are gone
getitem_return ==
    /\ dpc = "returned"
    /\ dpc' = "ready"
    /\ idx' = 0
    /\ traj_idx' = 0
    /\ el_idx' = 0
    /\ pos_input' = <<>>
    /\ pos_target' = {}
    /\ UNCHANGED <<trainvars, lossvars, traj_keys, sequence_length,
                   input_sequence_length, is_rollout, keylen_cumulative,
                   num_samples>>

DataNext ==
    \/ H5Dataset_init
    \/ get_trajectory
    \/ get_window_locate
    \/ get_window_load
    \/ getitem_return

DataSpec == DataInit /\ [][DataNext]_vars

TypeOK ==
    /\ pc \in {"config", "init", "while", "for", "sample", "preprocess", "unroll",
               "check", "update", "log", "eval", "inc", "done", "crashed"}
    /\ step \in 0..(MaxStep + 1)
    /\ k \in 0..MaxUnroll
    /\ unbound \subseteq {"opt_state", "step"}
\* the samples of a batch
Members(b) == {b[i] : i \in DOMAIN b}

\* the samples the loader iterator can still yield after an abort that left
\* rem unyielded: those, or a whole new epoch when no full batch is left
Yieldable(rem) == IF Cardinality(rem) >= BatchSize THEN rem ELSE Samples

\* ---------------------------------------------------------------------
\* C1: when a sample of the batch has its overflow flag set after
\* preprocessing and unrolling, the iteration is aborted: update_fn is never
\* entered with an abort pending, and from the abort until the next
\* iteration starts params, state, opt_state, the step counter and the
\* number of update_fn calls are those of the moment of the overflow check.
C1_AbortSkipsUpdate ==
    \A a \in aborted :
        /\ pc \in {"for", "while", "sample"}
        /\ params = a.params
        /\ state = a.state
        /\ opt_state = a.opt_state
        /\ step = a.step
        /\ nUpdates = a.nUpdates
        /\ \E i \in BatchIdx : a.flags[i]

\* an iteration was aborted for overflow and the next one has fetched its batch
C1_Witness == aborted # {} /\ pc = "sample"

\* ---------------------------------------------------------------------
\* C2 as stated: the iteration after an overflow abort processes the raw
\* batch that overflowed.
C2_Original ==
    (pc = "sample" /\ aborted # {}) => \A a \in aborted : raw_batch = a.batch

\* C2 as amended: the iteration after an overflow abort processes the next
\* batch the loader yields: samples the epoch had not yielded yet, or the
\* first batch of a new epoch when no full batch was left; the loader has
\* moved past it, the neighbor buffer is the reallocated one and the step is
\* the step of the aborted iteration.
C2_NextBatch ==
    (pc = "sample" /\ aborted # {}) =>
        \A a \in aborted :
            /\ Members(raw_batch) \subseteq Yieldable(a.remaining)
            /\ remaining = Yieldable(a.remaining) \ Members(raw_batch)
            /\ Cardinality(a.remaining) >= BatchSize =>
                   Members(raw_batch) \cap Members(a.batch) = {}
            /\ \E i \in BatchIdx :
                   /\ a.flags[i]
                   /\ neighbors_batch = broadcast_to_batch(allocate(a.batch[i]))
            /\ step = a.step

\* the iteration after an abort runs on a batch other than the aborted one
C2_Witness ==
    /\ pc = "sample"
    /\ \E a \in aborted : Members(raw_batch) \cap Members(a.batch) = {}

\* ---------------------------------------------------------------------
\* C3 as stated: _train returns only with step = step_max, for every
\* initial step (0, or the step of the checkpoint) and every step_max.
C3_Original == pc = "done" => step = step_max

\* C3 as amended: when the initial step is at most step_max, _train returns
\* only with step = step_max; when the step of the checkpoint exceeds
\* step_max it returns at once with that step. The values returned are the
\* initial ones with every optimizer update of the run applied, one update
\* for each step between the initial step and the returned one.
C3_DoneAtStepMax ==
    pc = "done" =>
        \A s \in start :
            /\ s.step <= step_max => step = step_max
            /\ s.step > step_max => step = s.step
            /\ nUpdates = step - s.step
            /\ params = [src |-> s.params.src, ver |-> nUpdates]
            /\ state = [src |-> s.state.src, ver |-> nUpdates]
            /\ opt_state = [src |-> s.opt_state.src, ver |-> nUpdates]

\* _train has returned after at least two optimizer updates
C3_Witness == pc = "done" /\ nUpdates >= 2 /\ step = step_max

\* ---------------------------------------------------------------------
\* C4: no model application of the training loop, push-forward step or
\* loss/update step, consumes features built from a neighbor batch in which
\* a sample has did_buffer_overflow set.
C4_Original ==
    pc \in {"unroll", "update"} => \A i \in BatchIdx : ~features_batch[i]

\* ---------------------------------------------------------------------
\* The loop under the scheduling of a sequential program: a step that can be
\* taken is taken. The run is a fresh one of a single step without noise.
FairInit ==
    /\ Init
    /\ rollout_fits /\ trajs_fit /\ shapes_match
    /\ step_max = 1
    /\ noise_std = 0
    /\ params = NoVal
    /\ load_checkpoint = None
    /\ store_checkpoint = None

FairSpec == FairInit /\ [][Next]_vars /\ WF_vars(Next)

\* C5: after an iteration is aborted for overflow, an iteration without
\* overflow that performs an optimizer update eventually follows, and the
\* training loop reaches step_max and returns.
C5_Original ==
    /\ [](aborted # {} => <>(pc = "update"))
    /\ <>(pc = "done")

\* ---------------------------------------------------------------------
\* the largest of a non-empty finite set of numbers
Max(S) == CHOOSE m \in S : \A n \in S : n <= m

\* C6 as stated: after a reallocation triggered by overflow the shared
\* capacity is the maximum capacity required by any sample of the batch.
C6_Original ==
    \A a \in aborted :
        neighbors_batch.cap =
            Max({allocate(a.batch[i]).cap : i \in BatchIdx})

\* C6 as amended: after a reallocation triggered by overflow the one
\* capacity shared by all samples of the batch is the capacity allocated
\* for the raw positions of the first sample of the batch whose overflow
\* flag is set, whatever the other samples need.
C6_FirstOverflowed ==
    \A a \in aborted :
        \E i \in BatchIdx :
            /\ a.flags[i]
            /\ \A j \in BatchIdx : a.flags[j] => i <= j
            /\ neighbors_batch.cap = allocate(a.batch[i]).cap
            /\ nbrs.cap = neighbors_batch.cap

\* a reallocation for the first of two overflowed samples left a capacity
\* below the one the other sample requires
C6_Witness ==
    \E a \in aborted :
        /\ \A i \in BatchIdx : a.flags[i]
        /\ neighbors_batch.cap < Max({allocate(a.batch[i]).cap : i \in BatchIdx})

\* ---------------------------------------------------------------------
\* C7: the buffer installed by the overflow branch has a strictly greater
\* capacity than the buffer that overflowed.
C7_Original ==
    [][(pc = "check" /\ AnyOverflow(neighbors_batch)) =>
           neighbors_batch'.cap > neighbors_batch.cap]_vars

\* ---------------------------------------------------------------------
\* the elements of a sequence
Range(s) == {s[i] : i \in DOMAIN s}

\* C8: an evaluation runs in an iteration iff the iteration completed an
\* optimizer update at a step s with s > 0 and s % eval_steps = 0, exactly
\* once for each such step, and never in an iteration aborted for overflow.
C8_EvalCadence ==
    /\ \A i \in DOMAIN evalLog :
          /\ evalLog[i] > 0
          /\ evalLog[i] % eval_steps = 0
          /\ evalLog[i] \in Range(updLog)
          /\ \A j \in DOMAIN evalLog : evalLog[i] = evalLog[j] => i = j
    /\ \A i \in DOMAIN updLog :
          (updLog[i] > 0 /\ updLog[i] % eval_steps = 0) =>
              \/ updLog[i] \in Range(evalLog)
              \/ (pc \in {"log", "eval"} /\ updLog[i] = step)
    /\ "eval" \in Range(iterTrace) => "update" \in Range(iterTrace)
    /\ aborted # {} => pc = "sample" \/ "update" \notin Range(iterTrace)

\* an evaluation ran at one step and none ran at an updated step before it
C8_Witness ==
    /\ pc = "inc"
    /\ Len(evalLog) = 1
    /\ Len(updLog) >= 2
    /\ evalLog[1] = step

\* ---------------------------------------------------------------------
\* the phases of an iteration with n push-forward steps, in order
Phases(n) ==
    <<"sample", "preprocess">> \o [i \in 1..n |-> "unroll"] \o
    <<"check", "update", "log", "eval">>

\* C9: the phases of an iteration run in order: sampling of the
\* push-forward steps, preprocessing, all unroll steps, the overflow check,
\* the update, then the evaluation, which ends before the next iteration
\* starts.
C9_PhaseOrder ==
    LET n == IF pc = "sample" THEN 0 ELSE unroll_steps
        full == Phases(n)
        skipEval == SubSeq(full, 1, Len(full) - 1)
    IN /\ Len(iterTrace) <= Len(full)
       /\ \A i \in DOMAIN iterTrace : iterTrace[i] = full[i]
       /\ pc = "sample" => iterTrace = <<>>
       /\ pc = "preprocess" => iterTrace = <<"sample">>
       /\ pc = "unroll" => Len(iterTrace) = 2 + k /\ k < unroll_steps
       /\ pc = "check" => Len(iterTrace) = 2 + unroll_steps
       /\ pc = "update" => Len(iterTrace) = 3 + unroll_steps
       /\ pc = "log" => Len(iterTrace) = 4 + unroll_steps
       /\ pc = "eval" => iterTrace = skipEval
       /\ pc = "inc" => iterTrace \in {skipEval, full}

\* an iteration ran every phase, a push-forward step and an evaluation included
C9_Witness == pc = "inc" /\ unroll_steps >= 1 /\ iterTrace = Phases(unroll_steps)

\* ---------------------------------------------------------------------
\* C10: for every combination of params, state and load_checkpoint the
\* state INIT resolves has params, state, opt_state and step defined; with
\* load_checkpoint given they are those of the checkpoint, otherwise step
\* is 0 and opt_state is initialised from the params in use.
C10_Original ==
    \A s \in start :
        /\ s.unbound = {}
        /\ s.params # NoVal /\ s.state # NoVal /\ s.opt_state # NoVal
        /\ load_checkpoint # None =>
               /\ s.params = load_haiku.params
               /\ s.state = load_haiku.state
               /\ s.opt_state = load_haiku.opt_state
               /\ s.step = load_haiku.step
        /\ load_checkpoint = None =>
               /\ s.step = 0
               /\ s.opt_state = [src |-> "opt_init:" \o s.params.src, ver |-> 0]

\* ---------------------------------------------------------------------
\* C11 as stated: when eval_n_trajs exceeds the evaluation trajectories,
\* when n_rollout_steps exceeds subsequence_length - input_seq_length, or
\* when a prediction and its target differ in shape on an active channel,
\* _train fails before any batch is preprocessed, unrolled or used for an
\* optimizer update.
C11_Original ==
    ~(rollout_fits /\ trajs_fit /\ shapes_match) =>
        \A i \in DOMAIN iterTrace :
            iterTrace[i] \notin {"preprocess", "unroll", "update"}

\* ---------------------------------------------------------------------
\* C12 as stated: for a sample whose particles are all kinematic the loss
\* computation ends in an error and returns no value.
C12_Original ==
    (mpc \in {"ret", "raised"} /\ \A i \in Particles : get_kinematic_mask(particle_type)[i])
        => mpc = "raised"

\* ---------------------------------------------------------------------
\* C13 as stated: the step stored in a checkpoint's metadata is the number
\* of optimizer updates applied to the params stored with it: the step the
\* run started from plus the updates of this run that the params hold.
C13_Original ==
    \A c \in saved : \A s \in start :
        "step" \notin s.unbound => c.step = s.step + c.params.ver

\* ---------------------------------------------------------------------
\* C14 as stated: the neighbor list an evaluation rollout returned is the
\* neighbor list passed to the next evaluation rollout of the run.
C14_Original ==
    [][(Len(evalLog') > Len(evalLog) /\ evalOut # {})
           => broadcast_from_batch(neighbors_batch, 1) \in evalOut]_vars

\* the last phase the current iteration has run
LastPhase == IF iterTrace = <<>> THEN None ELSE iterTrace[Len(iterTrace)]

\* ---------------------------------------------------------------------
\* C15: without store_checkpoint nothing is ever saved; with it, save_haiku
\* has been called once per evaluation and never otherwise, the checkpoint
\* on disk is the one of the last evaluation, its metadata hold the step of
\* that evaluation and the val/loss of that evaluation's metrics, and when
\* the evaluation has just run its params, state and opt_state are the
\* current ones.
C15_CheckpointAtEval ==
    /\ nSaves = IF store_checkpoint = None THEN 0 ELSE Len(evalLog)
    /\ store_checkpoint = None => saved = {}
    /\ store_checkpoint # None =>
           /\ (saved = {}) <=> (evalLog = <<>>)
           /\ \A c \in saved :
                  /\ c.step = evalLog[Len(evalLog)]
                  /\ \A m \in metrics : c.loss = m["val/loss"]
                  /\ c.loss = eval_metrics(c.params, c.state)
                  /\ (pc = "inc" /\ LastPhase = "eval") =>
                         /\ c.params = params
                         /\ c.state = state
                         /\ c.opt_state = opt_state
                         /\ c.step = step

\* a second checkpoint has just been written, over the first
C15_Witness ==
    /\ pc = "inc" /\ LastPhase = "eval"
    /\ nSaves = 2
    /\ saved # {}

\* ---------------------------------------------------------------------
\* C16: after INIT params, state and opt_state are the values INIT resolved
\* with one update applied for each completed call of update_fn, in every
\* phase: sampling, preprocessing, unrolling, the overflow branch, logging,
\* evaluation and saving leave them as they are.
C16_OnlyUpdateMutates ==
    /\ nUpdates = Len(updLog)
    /\ start = {} => nUpdates = 0
    /\ \A s \in start :
           /\ params = [src |-> s.params.src, ver |-> nUpdates]
           /\ state = [src |-> s.state.src, ver |-> nUpdates]
           /\ opt_state = [src |-> s.opt_state.src, ver |-> nUpdates]
           /\ s.params.ver = 0 /\ s.state.ver = 0 /\ s.opt_state.ver = 0

\* after two updates and a saved evaluation, an iteration that sampled,
\* preprocessed and unrolled was aborted for overflow
C16_Witness ==
    /\ nUpdates >= 2
    /\ saved # {}
    /\ aborted # {}
    /\ k >= 1
    /\ pc = "for"

\* ---------------------------------------------------------------------
\* C17: at every loop head the step counter is the initial step plus the
\* number of completed updates, whatever the aborted iterations and epoch
\* boundaries in between, and when the initial step is at most step_max
\* the counter is at most step_max.
C17_StepCountsUpdates ==
    \A s \in start :
        ("step" \notin s.unbound /\ pc \in {"while", "for"}) =>
            /\ step - s.step = nUpdates
            /\ s.step <= step_max => step <= step_max

\* a loop head of a new epoch, after an update and with an abort just behind
C17_Witness ==
    /\ pc = "for"
    /\ remaining = Samples
    /\ nUpdates >= 1
    /\ aborted # {}

\* the number of times phase ph has run in the current iteration
Count(ph) == Cardinality({i \in DOMAIN iterTrace : iterTrace[i] = ph})

NonKinematic == {i \in Particles : ~get_kinematic_mask(particle_type)[i]}

\* the channels the loss counts
Active == nonzero(loss_weight) \cap DOMAIN pred

\* the weighted squared error of particle i on channel t
WeightedError(i, t) ==
    SumOver(1..Dim, [d \in 1..Dim |->
        loss_weight[t] * (pred[t][i][d] - target[t][i][d]) ^ 2])

\* ---------------------------------------------------------------------
\* C19: the loss _mse returns is the sum over the non-kinematic particles
\* of the weighted squared error over the active channels, divided by the
\* number of non-kinematic particles; predictions and targets that differ
\* from the given ones only on kinematic particles or on channels that are
\* not active give the same loss.
C19_MaskedLoss ==
    mpc = "ret" =>
        /\ NonKinematic # {} =>
               total_loss =
                   [kind |-> "finite",
                    num |-> SumOver(NonKinematic, [i \in NonKinematic |->
                                SumOver(Active, [t \in Active |-> WeightedError(i, t)])]),
                    den |-> Cardinality(NonKinematic)]
        /\ \A pr \in [DOMAIN pred -> Fields] : \A tg \in [Channels -> Fields] :
               (\A t \in Active : \A i \in NonKinematic :
                    pr[t][i] = pred[t][i] /\ tg[t][i] = target[t][i])
                   => mse(pr, particle_type, tg, loss_weight) = total_loss

\* a loss was returned for a sample with a kinematic particle in error on an
\* active channel, a non-kinematic particle in error, and an error on a
\* channel that is not active
C19_Witness ==
    /\ mpc = "ret"
    /\ total_loss.kind = "finite" /\ total_loss.num > 0
    /\ \E i \in Particles \ NonKinematic : \E t \in Active :
           pred[t][i] # target[t][i]
    /\ \E t \in DOMAIN pred \ Active : \E i \in NonKinematic :
           pred[t][i] # target[t][i]

WindowsPerTraj == sequence_length - input_sequence_length

\* the pairs (trajectory, element) of a training dataset
WindowPairs ==
    {<<t, e>> : t \in 0..(Len(traj_keys) - 1), e \in 0..(WindowsPerTraj - 1)}

\* ---------------------------------------------------------------------
\* C21: for a training dataset of T trajectories of L frames and input
\* sequence length k, len is T * (L - k); get_window sends every index
\* below len to a trajectory below T and an element below L - k, no two
\* indices to the same pair and some index to every pair; the window it
\* returns is the k frames from the element on and the target is the frame
\* after them, at most L - 1; no call raises.
C21_WindowBijection ==
    (~is_rollout /\ dpc # "new") =>
        /\ num_samples = Len(traj_keys) * WindowsPerTraj
        /\ dpc # "raised"
        /\ \A i \in 0..(num_samples - 1) :
               locate(keylen_cumulative, i) \in WindowPairs
        /\ \A i, j \in 0..(num_samples - 1) :
               locate(keylen_cumulative, i) = locate(keylen_cumulative, j) => i = j
        /\ \A p \in WindowPairs :
               \E i \in 0..(num_samples - 1) : locate(keylen_cumulative, i) = p
        /\ dpc \in {"located", "returned"} =>
               /\ idx \in 0..(num_samples - 1)
               /\ <<traj_idx, el_idx>> = locate(keylen_cumulative, idx)
               /\ <<traj_idx, el_idx>> \in WindowPairs
        /\ dpc = "returned" =>
               /\ pos_input = [j \in 1..input_sequence_length |-> el_idx + j - 1]
               /\ pos_target = {el_idx + input_sequence_length}
               /\ el_idx + input_sequence_length <= sequence_length - 1

\* get_window has returned the first window of a trajectory that is not the
\* first, in a dataset with several windows per trajectory
C21_Witness ==
    /\ ~is_rollout
    /\ dpc = "returned"
    /\ WindowsPerTraj >= 2
    /\ traj_idx >= 1
    /\ el_idx = 0
    /\ idx = keylen_cumulative[traj_idx]

====
